---- MODULE Spec2Model ----
(***************************************************************************)
(* Motion detector of src/motion_detector.py, driven by main() of          *)
(* src/main.py: setup, the run loop (read, process_frame, waitKey), the    *)
(* context manager's cleanup and main's exception handling.                *)
(***************************************************************************)
EXTENDS Integers, Sequences, FiniteSets, TLC

\* ------------------------------------------------------------------ bounds
\* Frames the stream delivers to the run loop before it ends.
MaxFrames == 5
\* Largest --buffer value tried (record_buffer_frames ranges over 0..MaxBuffer).
MaxBuffer == 2

\* ------------------------------------------------------------------ frames
\* Frame size reported by the capture device (width, height).
FrameWidth == 4
FrameHeight == 2
NumPixels == FrameWidth * FrameHeight

\* OpenCV's 8-bit BGR -> gray fixed-point luma weights (15-bit shift).
B2Y == 3735
G2Y == 19235
R2Y == 9798
GrayShift == 15

\* A frame is a sequence of NumPixels pixels <<b, g, r>>.
Uniform(v) == [i \in 1..NumPixels |-> <<v, v, v>>]

\* The frames the camera can deliver.
Frames == {Uniform(0), Uniform(125), Uniform(250)}

\* cv2.cvtColor(frame, cv2.COLOR_BGR2GRAY)
cvtColor(f) ==
  [i \in DOMAIN f |->
     (f[i][1] * B2Y + f[i][2] * G2Y + f[i][3] * R2Y + 2^(GrayShift - 1))
       \div 2^GrayShift]

\* cv2.subtract on uint8 images: a - b saturated to 0..255.
subtract(a, b) ==
  [i \in DOMAIN a |-> IF a[i] - b[i] < 0 THEN 0
                      ELSE IF a[i] - b[i] > 255 THEN 255 ELSE a[i] - b[i]]

RECURSIVE npsum(_)
npsum(s) == IF Len(s) = 0 THEN 0 ELSE Head(s) + npsum(Tail(s))

\* _calculate_motion: the motion value of `frame` against the last frame.
calculate_motion(frame, last) ==
  npsum(subtract(cvtColor(frame), cvtColor(last)))

\* ------------------------------------------------------------- file names
RECURSIVE Digits(_)
Digits(n) == IF n < 10 THEN <<n>> ELSE Append(Digits(n \div 10), n % 10)

RECURSIVE ZeroPad(_, _)
ZeroPad(s, w) == IF Len(s) >= w THEN s ELSE ZeroPad(<<0>> \o s, w)

\* f"{n:04d}"
Format04d(n) == ZeroPad(Digits(n), 4)

File(stem, digits, ext) == [stem |-> stem, digits |-> digits, ext |-> ext]
Recording(n) == File("recording_", Format04d(n), ".avi")

\* f.endswith('.avi')
EndsWithAvi(f) == f.ext = ".avi"

\* Faulty variant of _get_next_filename: one more than the count.
get_next_filename_OneMore(dir) ==
  Recording(Cardinality({f \in dir : EndsWithAvi(f)}) + 1)

\* _get_next_filename
get_next_filename(dir) ==
  Recording(Cardinality({f \in dir : EndsWithAvi(f)}))

\* Contents the output directory may have when the program starts.
InitialDirs ==
  { {},
    {Recording(1)},
    {Recording(1), File("clip", <<>>, ".avi"), File("notes", <<>>, ".txt")} }

\* --threshold and --buffer values tried.
Thresholds == {999, 1000}
Buffers == 0..MaxBuffer

\* ------------------------------------------------------------------ state
VARIABLES
  threshold,             \* self.threshold
  record_buffer_frames,  \* self.record_buffer_frames
  show_preview,          \* self.show_preview
  dirStatus,             \* output_dir: "exists", "absent" or "uncreatable"
  directory,             \* the files of output_dir
  video,                 \* self._video: "None" or "capture"
  device,                \* the camera: "unacquired", "unopened", "open", "released"
  writer,                \* self._writer: 0 (None) or an index into sessions
  last_frame,            \* self._last_frame (<<>> for None)
  record_buffer,         \* self._record_buffer
  is_recording,          \* self._is_recording
  pc,                    \* position of main()
  exc,                   \* exception in flight
  frame,                 \* run's local `frame` (<<>> before the first read)
  display,               \* image last shown in the "Live" window (<<>>: none)
  written,               \* image the latest process_frame call gave to
                         \* writer.write (<<>>: none)
  raw_frame,             \* the frame as the camera delivered it at the last read
  raw_last,              \* the camera's frame before that one (of _setup's read
                         \* or of the previous completed process_frame call)
  reads,                 \* number of frames the camera has delivered
  sessions,              \* every VideoWriter created, in creation order
  scores,                \* motion value of each process_frame call
  wrote,                 \* per process_frame call: was the frame written
  returned,              \* return value of each process_frame call
  cleanups,              \* number of _cleanup calls
  stderr,                \* what was printed to the error stream
  mainReturn,            \* value main() returned (-1: none)
  exitStatus,            \* process exit status (-1: still running)
  exitReason,            \* why the run ended
  intr                   \* what was open when the interrupt arrived

vars ==
  << threshold, record_buffer_frames, show_preview, dirStatus, directory,
     video, device, writer, last_frame, record_buffer, is_recording, pc, exc,
     frame, display, written, raw_frame, raw_last, reads, sessions, scores,
     wrote, returned, cleanups, stderr, mainReturn,
     exitStatus, exitReason, intr >>

config == << threshold, record_buffer_frames, show_preview >>
detector == << writer, record_buffer, is_recording, sessions, directory >>
history == << reads, scores, wrote, returned >>
camera == << raw_frame, raw_last >>
images == << display, written >>
outcome == << stderr, mainReturn, exitStatus >>

NoFrame == <<>>
NoException == [type |-> "none", msg |-> ""]
Raise(type, msg) == [type |-> type, msg |-> msg]
NoInterrupt == [happened |-> FALSE, writer |-> 0, frames |-> <<>>, nsessions |-> 0]

\* MotionDetector.__init__ called by main() with the parsed arguments.
Init ==
  /\ threshold \in Thresholds
  /\ record_buffer_frames \in Buffers
  /\ show_preview \in BOOLEAN
  /\ \/ dirStatus = "exists" /\ directory \in InitialDirs
     \/ dirStatus \in {"absent", "uncreatable"} /\ directory = {}
  /\ video = "None"
  /\ device = "unacquired"
  /\ writer = 0
  /\ last_frame = NoFrame
  /\ record_buffer = 0
  /\ is_recording = FALSE
  /\ pc = "setup_dir"
  /\ exc = NoException
  /\ frame = NoFrame
  /\ display = NoFrame
  /\ written = NoFrame
  /\ raw_frame = NoFrame
  /\ raw_last = NoFrame
  /\ reads = 0
  /\ sessions = <<>>
  /\ scores = <<>>
  /\ wrote = <<>>
  /\ returned = <<>>
  /\ cleanups = 0
  /\ stderr = <<>>
  /\ mainReturn = -1
  /\ exitStatus = -1
  /\ exitReason = "none"
  /\ intr = NoInterrupt

\* ------------------------------------------------------- recording session
\* cv2.VideoWriter(filename, fourcc, 30, frame_size): creates (or truncates)
\* the file and is open for writing.
VideoWriter(filename, dir) ==
  [path |-> filename, open |-> TRUE, frames |-> <<>>, releases |-> 0,
   fps |-> 30, replaced |-> filename \in dir]

\* VideoWriter.release()
release_writer(ss, w) ==
  [ss EXCEPT ![w].open = FALSE, ![w].releases = @ + 1]

\* Faulty variant of the write: the frame is appended twice.
write_writer_Twice(ss, w, step) ==
  IF ss[w].open
  THEN [ss EXCEPT ![w].frames = Append(Append(@, step), step)]
  ELSE ss

\* VideoWriter.write(frame): appends to an open writer only.
write_writer(ss, w, step) ==
  IF ss[w].open THEN [ss EXCEPT ![w].frames = Append(@, step)] ELSE ss

\* cv2.putText twice: the status label near the top-left corner (red when
\* moving, green otherwise), the timestamp near the bottom-right (white).
putText(image, is_moving) ==
  [image EXCEPT ![1] = IF is_moving THEN <<0, 0, 255>> ELSE <<0, 255, 0>>,
                ![Len(image)] = <<255, 255, 255>>]

\* Faulty variant of _add_overlay: draws on the caller's frame (no copy).
add_overlay_InPlace(image, is_moving) ==
  [shown |-> putText(image, is_moving), frame |-> putText(image, is_moving)]

\* _add_overlay: the image returned and the caller's frame afterwards
\* (frame.copy() leaves the caller's frame alone).
add_overlay(image, is_moving) ==
  [shown |-> putText(image, is_moving), frame |-> image]

\* Faulty variant of the last line but one of process_frame: no update.
store_last_frame_Kept(image, last) == last

\* process_frame: self._last_frame = frame
store_last_frame(image, last) == image

\* _start_recording
start_recording(w, ss, dir) ==
  LET ss1 == IF w # 0 THEN release_writer(ss, w) ELSE ss
      filename == get_next_filename(dir)
  IN [writer |-> Len(ss1) + 1,
      sessions |-> Append(ss1, VideoWriter(filename, dir)),
      directory |-> dir \cup {filename},
      is_recording |-> TRUE]

\* Faulty variant of _stop_recording: forgets the writer without releasing it.
stop_recording_NoRelease(w, ss, dir) ==
  [writer |-> 0, sessions |-> ss, directory |-> dir, is_recording |-> FALSE]

\* _stop_recording
stop_recording(w, ss, dir) ==
  [writer |-> 0,
   sessions |-> IF w # 0 THEN release_writer(ss, w) ELSE ss,
   directory |-> dir,
   is_recording |-> FALSE]

\* Faulty variant of the threshold test: >= for >.
MotionDetected_OrEqual(motion, t) == motion >= t

\* process_frame: motion_detected = motion > self.threshold
MotionDetected(motion, t) == motion > t

\* Faulty variant of the counter update: motion adds to the counter.
NextBuffer_Added(motion_detected, buffer, buffer_frames) ==
  IF motion_detected THEN buffer + buffer_frames ELSE buffer - 1

\* process_frame: self._record_buffer = self.record_buffer_frames on motion,
\* self._record_buffer -= 1 otherwise.
NextBuffer(motion_detected, buffer, buffer_frames) ==
  IF motion_detected THEN buffer_frames ELSE buffer - 1

\* Faulty variant of the stop test: < 0 for <= 0.
BufferExpired_Late(buffer, recording) == buffer < 0 /\ recording

\* process_frame: self._record_buffer <= 0 and self._is_recording
BufferExpired(buffer, recording) == buffer <= 0 /\ recording

\* Faulty variant of the write test: >= 0 for > 0.
IsMoving_OrZero(buffer) == buffer >= 0

\* process_frame: is_moving = self._record_buffer > 0
IsMoving(buffer) == buffer > 0

\* ------------------------------------------------------------------ _setup
\* _ensure_output_dir: os.makedirs raises OSError when it cannot create.
EnsureOutputDir ==
  /\ pc = "setup_dir"
  /\ \/ /\ dirStatus = "exists"
        /\ pc' = "setup_open"
        /\ UNCHANGED << dirStatus, directory, exc, exitReason >>
     \/ /\ dirStatus = "absent"
        /\ dirStatus' = "exists"
        /\ directory' = {}
        /\ pc' = "setup_open"
        /\ UNCHANGED << exc, exitReason >>
     \/ /\ dirStatus = "uncreatable"
        /\ exc' = Raise("OSError", "Permission denied")
        /\ exitReason' = "dir_error"
        /\ pc' = "main_end"
        /\ UNCHANGED << dirStatus, directory >>
  /\ UNCHANGED << config, video, device, writer, last_frame, record_buffer,
                  is_recording, frame, camera, images, sessions, history, cleanups,
                  outcome, intr >>

\* self._video = cv2.VideoCapture(camera_id); raise unless isOpened().
OpenVideo ==
  /\ pc = "setup_open"
  /\ video' = "capture"
  /\ \E opened \in BOOLEAN :
       IF opened
       THEN /\ device' = "open"
            /\ pc' = "setup_read"
            /\ UNCHANGED << exc, exitReason >>
       ELSE /\ device' = "unopened"
            /\ exc' = Raise("RuntimeError", "Could not open camera")
            /\ exitReason' = "open_error"
            /\ pc' = "main_end"
  /\ UNCHANGED << config, dirStatus, detector, last_frame, frame, camera, images,
                  history, cleanups, outcome, intr >>

\* Read initial frame; __enter__ returns and run() starts.
ReadInitialFrame ==
  /\ pc = "setup_read"
  /\ \E ret \in BOOLEAN, f \in Frames :
       IF ret
       THEN /\ last_frame' = f
            /\ raw_frame' = f
            /\ raw_last' = f
            /\ reads' = 1
            /\ pc' = "run_read"
            /\ UNCHANGED << exc, exitReason >>
       ELSE /\ exc' = Raise("RuntimeError", "Could not read from camera")
            /\ exitReason' = "first_read_error"
            /\ pc' = "main_end"
            /\ UNCHANGED << last_frame, camera, reads >>
  /\ UNCHANGED << config, dirStatus, video, device, detector, frame, images,
                  scores, wrote, returned, cleanups, outcome, intr >>

\* --------------------------------------------------------------------- run
\* Faulty variant of run: a failed read does not leave the loop.
AfterRead_NoBreak(ret) == IF ret THEN "pf_decide" ELSE "run_read"

\* run: where the loop goes after self._video.read().
AfterRead(ret) == IF ret THEN "pf_decide" ELSE "cleanup_video"

\* run: ret, frame = self._video.read(); break when not ret.
RunRead ==
  /\ pc = "run_read"
  /\ \E ret \in BOOLEAN :
       /\ ret => Len(scores) < MaxFrames
       /\ pc' = AfterRead(ret)
       /\ IF ret
          THEN /\ \E f \in Frames : /\ frame' = f
                                    /\ raw_frame' = f
               /\ reads' = reads + 1
               /\ UNCHANGED exitReason
          ELSE /\ frame' = NoFrame
               /\ raw_frame' = NoFrame
               /\ UNCHANGED reads
               /\ exitReason' = IF exitReason = "none" THEN "read_fail"
                                ELSE exitReason
  /\ UNCHANGED << config, dirStatus, video, device, detector, last_frame,
                  exc, raw_last, images, scores, wrote, returned, cleanups,
                  outcome, intr >>

\* process_frame, "Update recording buffer": motion value, threshold test,
\* start/stop of the session and the buffer counter.
PfDecide ==
  /\ pc = "pf_decide"
  /\ frame # NoFrame
  /\ LET motion == calculate_motion(frame, last_frame)
         motion_detected == MotionDetected(motion, threshold)
         same == [writer |-> writer, sessions |-> sessions,
                  directory |-> directory, is_recording |-> is_recording]
         buffer == NextBuffer(motion_detected, record_buffer,
                              record_buffer_frames)
         d == IF motion_detected
              THEN IF ~is_recording
                   THEN start_recording(writer, sessions, directory)
                   ELSE same
              ELSE IF BufferExpired(buffer, is_recording)
                   THEN stop_recording(writer, sessions, directory)
                   ELSE same
     IN /\ scores' = Append(scores, motion)
        /\ record_buffer' = buffer
        /\ writer' = d.writer
        /\ sessions' = d.sessions
        /\ directory' = d.directory
        /\ is_recording' = d.is_recording
  /\ pc' = "pf_record"
  /\ UNCHANGED << config, dirStatus, video, device, last_frame, exc, frame,
                  camera, images, reads, wrote, returned, cleanups, outcome,
                  exitReason, intr >>

\* process_frame, "Write frame if recording" to the return.
PfRecord ==
  /\ pc = "pf_record"
  /\ LET is_moving == IsMoving(record_buffer)
         writing == is_moving /\ writer # 0
         preview == IF show_preview THEN add_overlay(frame, is_moving)
                    ELSE [shown |-> display, frame |-> frame]
     IN /\ sessions' = IF writing
                       THEN write_writer(sessions, writer, Len(scores))
                       ELSE sessions
        /\ written' = IF writing /\ sessions[writer].open
                      THEN frame ELSE NoFrame
        /\ wrote' = Append(wrote, writing /\ sessions[writer].open)
        /\ display' = preview.shown
        /\ frame' = preview.frame
        /\ last_frame' = store_last_frame(preview.frame, last_frame)
  /\ returned' = Append(returned,
                        MotionDetected(scores[Len(scores)], threshold))
  /\ raw_last' = raw_frame
  /\ pc' = "wait_key"
  /\ UNCHANGED << config, dirStatus, directory, video, device, writer,
                  record_buffer, is_recording, exc, raw_frame, reads, scores,
                  cleanups, outcome, exitReason, intr >>

\* run: if cv2.waitKey(1) & 0xFF == ord('q'): break.  waitKey sees a key
\* only when a window exists, so headless runs never get 'q'.
WaitKey ==
  /\ pc = "wait_key"
  /\ \E quit \in BOOLEAN :
       /\ quit => show_preview
       /\ IF quit
          THEN /\ pc' = "cleanup_video"
               /\ exitReason' = "quit"
          ELSE /\ pc' = "run_read"
               /\ UNCHANGED exitReason
  /\ UNCHANGED << config, dirStatus, video, device, detector, last_frame,
                  exc, frame, camera, images, history, cleanups, outcome, intr >>

\* --------------------------------------------------------------- interrupt
SetupPcs == {"setup_dir", "setup_open", "setup_read"}
RunPcs == {"run_read", "pf_decide", "pf_record", "wait_key"}

\* KeyboardInterrupt raised between two steps: inside __enter__ it reaches
\* main's handler directly, inside the with block it runs __exit__ first.
Interrupt ==
  /\ pc \in SetupPcs \cup RunPcs
  /\ exc' = Raise("KeyboardInterrupt", "")
  /\ exitReason' = "interrupt"
  /\ pc' = IF pc \in SetupPcs THEN "main_end" ELSE "cleanup_video"
  /\ intr' = [happened |-> TRUE,
              writer |-> IF writer # 0 /\ sessions[writer].open
                         THEN writer ELSE 0,
              frames |-> IF writer # 0 THEN sessions[writer].frames
                         ELSE <<>>,
              nsessions |-> Len(sessions)]
  /\ UNCHANGED << config, dirStatus, video, device, detector, last_frame,
                  frame, camera, images, history, cleanups, outcome >>

\* ---------------------------------------------------------------- _cleanup
\* Faulty variant of _cleanup: the capture device is not released.
release_video_Skipped(dev) == dev

\* cv2.VideoCapture.release()
release_video(dev) == "released"

\* __exit__ -> _cleanup: release of the capture device.
CleanupVideo ==
  /\ pc = "cleanup_video"
  /\ cleanups' = cleanups + 1
  /\ IF video # "None"
     THEN /\ device' = release_video(device)
          /\ video' = "None"
     ELSE UNCHANGED << video, device >>
  /\ pc' = "cleanup_writer"
  /\ UNCHANGED << config, dirStatus, detector, last_frame, exc, frame,
                  camera, images, history, outcome, exitReason, intr >>

\* Faulty variant of _cleanup: the writer is dropped without release.
cleanup_writer_NoRelease(ss, w) == ss

\* _cleanup: what becomes of the sessions when the writer is released.
cleanup_writer(ss, w) == IF w # 0 THEN release_writer(ss, w) ELSE ss

\* _cleanup: release of the writer, destroyAllWindows; __exit__ returns None.
CleanupWriter ==
  /\ pc = "cleanup_writer"
  /\ sessions' = cleanup_writer(sessions, writer)
  /\ writer' = 0
  /\ pc' = "main_end"
  /\ UNCHANGED << config, dirStatus, directory, video, device, last_frame,
                  record_buffer, is_recording, exc, frame, camera, images, history,
                  cleanups, outcome, exitReason, intr >>

\* -------------------------------------------------------------------- main
\* main: the except clauses and the return value; sys.exit(main()).  An
\* exception main does not catch ends the process with a traceback on the
\* error stream and status 1.
MainEnd ==
  /\ pc = "main_end"
  /\ pc' = "done"
  /\ exc' = NoException
  /\ CASE exc.type = "none" ->
            /\ mainReturn' = 0
            /\ exitStatus' = 0
            /\ UNCHANGED stderr
       [] exc.type = "RuntimeError" ->
            /\ stderr' = Append(stderr, <<"Error: ", exc.msg>>)
            /\ mainReturn' = 1
            /\ exitStatus' = 1
       [] exc.type = "KeyboardInterrupt" ->
            /\ mainReturn' = 0
            /\ exitStatus' = 0
            /\ UNCHANGED stderr
       [] OTHER ->
            /\ stderr' = Append(stderr, <<"Traceback: ", exc.type, exc.msg>>)
            /\ exitStatus' = 1
            /\ UNCHANGED mainReturn
  /\ UNCHANGED << config, dirStatus, video, device, detector, last_frame,
                  frame, camera, images, history, cleanups, exitReason, intr >>

Next ==
  \/ EnsureOutputDir
  \/ OpenVideo
  \/ ReadInitialFrame
  \/ RunRead
  \/ PfDecide
  \/ PfRecord
  \/ WaitKey
  \/ Interrupt
  \/ CleanupVideo
  \/ CleanupWriter
  \/ MainEnd

Spec == Init /\ [][Next]_vars

\* The program's own steps: everything but the interrupt, which the user may
\* never send.
Step ==
  \/ EnsureOutputDir
  \/ OpenVideo
  \/ ReadInitialFrame
  \/ RunRead
  \/ PfDecide
  \/ PfRecord
  \/ WaitKey
  \/ CleanupVideo
  \/ CleanupWriter
  \/ MainEnd

\* Runs with the preview window that start with no file in the output
\* directory (what the directory holds plays no part in how a run ends, and
\* the preview runs have every way to end, the 'q' key included).
LiveInit == Init /\ directory = {} /\ show_preview

\* The single thread of main() always takes its next step.
LiveSpec == LiveInit /\ [][Next]_vars /\ WF_vars(Step)

\* ------------------------------------------------------- derived notions
Steps == 1..Len(scores)
Completed == 1..Len(wrote)
SessionIds == 1..Len(sessions)
OpenSessions == {k \in SessionIds : sessions[k].open}
Range(q) == {q[n] : n \in 1..Len(q)}

\* The frame of step i was appended to some session.
Written(i) == \E k \in SessionIds : i \in Range(sessions[k].frames)

Above(j) == scores[j] > threshold

ScenarioScores == <<0, 2000, 0, 0, 0>>

\* C2: threshold 1000, hold-over 2, scores [0, 2000, 0, 0, 0]: the frames of
\* steps 1, 2, 3 (counted from 0) are written, those of steps 0 and 4 are
\* not, and exactly one session is opened and closed.
C2_ScenarioAsClaimed ==
  ( /\ threshold = 1000
    /\ record_buffer_frames = 2
    /\ scores = ScenarioScores
    /\ Len(wrote) = 5 )
  => /\ ~Written(1) /\ Written(2) /\ Written(3) /\ Written(4) /\ ~Written(5)
     /\ Len(sessions) = 1
     /\ ~sessions[1].open

\* ---------------------------------------------------------------------- C3
\* Below-threshold frames strictly between steps j and i.
Gap(j, i) == i - j - 1

\* Step i starts a motion episode as the claim counts them: it is above the
\* threshold and every earlier above-threshold step lies a gap of at least
\* record_buffer_frames frames back.
StartsEpisodeAsClaimed(i) ==
  /\ Above(i)
  /\ \A j \in 1..(i - 1) : Above(j) => Gap(j, i) >= record_buffer_frames

\* C3 as claimed: the sessions opened are as many as the maximal motion
\* episodes, a gap of record_buffer_frames or more frames separating two
\* episodes, and every session but the last one is closed.
C3_SessionsAreEpisodesAsClaimed ==
  /\ Len(sessions) = Cardinality({i \in Steps : StartsEpisodeAsClaimed(i)})
  /\ \A k \in SessionIds : k < Len(sessions) => ~sessions[k].open

\* Step i starts a motion episode: as above, and the gap is not empty
\* (adjacent above-threshold frames never separate, whatever the hold-over).
StartsEpisode(i) ==
  /\ Above(i)
  /\ \A j \in 1..(i - 1) :
       Above(j) => Gap(j, i) >= record_buffer_frames /\ Gap(j, i) >= 1

\* C3 amended: the sessions opened are as many as the maximal motion
\* episodes, two above-threshold frames belonging to different episodes iff
\* at least one and at least record_buffer_frames frames lie between them;
\* every session but the last one is closed.
C3_SessionsAreEpisodes ==
  /\ Len(sessions) = Cardinality({i \in Steps : StartsEpisode(i)})
  /\ \A k \in SessionIds : k < Len(sessions) => ~sessions[k].open

\* Hold-over 1, scores above, below, above: the second session is open and
\* the first one closed.
C3_Witness ==
  /\ record_buffer_frames = 1
  /\ Len(scores) = 3
  /\ Above(1) /\ ~Above(2) /\ Above(3)
  /\ Len(sessions) = 2
  /\ ~sessions[1].open /\ sessions[2].open

\* ---------------------------------------------------------------------- C4
\* C4: at most one session is open, and an open session is the one
\* self._writer refers to (no open session is left behind).
C4_AtMostOneSessionOpen ==
  /\ Cardinality(OpenSessions) <= 1
  /\ \A k \in OpenSessions : k = writer

\* A second session is open after the first one was released.
C4_Witness ==
  /\ Len(sessions) >= 2
  /\ sessions[1].releases = 1
  /\ OpenSessions = {2}

\* ---------------------------------------------------------------------- C5
\* C5 as claimed: the session is closed before the capture device is
\* released, so once the device is released no session is open.
C5_WriterReleasedBeforeDevice ==
  device = "released" => OpenSessions = {}

\* C5 amended: _cleanup releases the capture device first and the open
\* session second: when the writer's turn comes the device is released and
\* the session still open, and when _cleanup has returned both are released.
C5_DeviceReleasedBeforeWriter ==
  /\ pc = "cleanup_writer" =>
       /\ device = "released" /\ video = "None"
       /\ writer # 0 => sessions[writer].open
  /\ (pc \in {"main_end", "done"} /\ cleanups > 0) =>
       /\ device = "released"
       /\ OpenSessions = {}
       /\ \A k \in SessionIds : sessions[k].releases = 1

\* Shutdown with a session open: the device is released, the session not yet.
C5_Witness ==
  /\ pc = "cleanup_writer"
  /\ device = "released"
  /\ writer # 0
  /\ sessions[writer].open
  /\ Len(sessions[writer].frames) >= 1

\* ---------------------------------------------------------------------- C6
SetupErrors == {"dir_error", "open_error", "first_read_error"}

\* C6: on every exit path of main() the cleanup path has run exactly once
\* and everything acquired (the capture object, any session) is released
\* when the process ends.
C6_CleanupOnceOnEveryExit ==
  pc = "done" =>
    /\ cleanups = 1
    /\ video = "None"
    /\ device \in {"unacquired", "released"}
    /\ OpenSessions = {}

\* ---------------------------------------------------------------------- C7
\* C7: an interrupt that arrives in the run loop while a session is open
\* opens no further session and loses none of the session's frames, and the
\* run ends with that session released exactly once and no session open.
C7_InterruptClosesOpenSession ==
  (intr.happened /\ intr.writer # 0) =>
    /\ Len(sessions) = intr.nsessions
    /\ sessions[intr.writer].frames = intr.frames
    /\ pc = "done" =>
         /\ sessions[intr.writer].releases = 1
         /\ OpenSessions = {}

\* The interrupt came in the middle of process_frame with frames already in
\* the open session, and the run has ended.
C7_Witness ==
  /\ pc = "done"
  /\ intr.happened
  /\ intr.writer # 0
  /\ Len(intr.frames) >= 1
  /\ Len(wrote) < Len(scores)

\* ---------------------------------------------------------------------- C8
NoFrameAfterReadFailure ==
  exitReason = "read_fail" => scores' = scores /\ wrote' = wrote
                              /\ Len(sessions') = Len(sessions)

EndedCleanly ==
  /\ pc = "done"
  /\ cleanups = 1
  /\ OpenSessions = {}
  /\ mainReturn = 0
  /\ exitStatus = 0

\* C8: after a failed read in the run loop no further frame is processed,
\* and the run goes on to end with cleanup done, no session open and exit
\* code 0.
C8_ReadFailureEndsRun ==
  /\ [][NoFrameAfterReadFailure]_vars
  /\ (exitReason = "read_fail") ~> EndedCleanly

\* A read fails while a session with frames is open.
C8_Witness ==
  /\ exitReason = "read_fail"
  /\ pc = "cleanup_video"
  /\ writer # 0
  /\ sessions[writer].open
  /\ Len(sessions[writer].frames) >= 1

\* ---------------------------------------------------------------------- C9
\* C9: a setup error ends the run with no frame processed and no session
\* opened, main() having printed a message to the error stream and returned
\* 1; a normal or interrupted termination returns 0.
C9_SetupErrorsReturnOne ==
  pc = "done" =>
    /\ exitReason \in SetupErrors =>
         /\ Len(scores) = 0
         /\ Len(sessions) = 0
         /\ Len(stderr) = 1
         /\ mainReturn = 1
    /\ exitReason \in {"quit", "read_fail", "interrupt"} => mainReturn = 0

\* --------------------------------------------------------------------- C10
AviCount(dir) == Cardinality({f \in dir : EndsWithAvi(f)})

\* Every file of the directory was created by this run.
StartedEmpty ==
  /\ directory = {sessions[k].path : k \in SessionIds}
  /\ \A k \in SessionIds : ~sessions[k].replaced

NamedByCount ==
  /\ directory \subseteq directory'
  /\ Len(sessions') > Len(sessions) =>
       LET new == sessions'[Len(sessions')].path
       IN /\ new.stem = "recording_" /\ new.ext = ".avi"
          /\ new.digits = Format04d(AviCount(directory))
  /\ StartedEmpty' =>
       \A k \in 1..Len(sessions') :
         sessions'[k].path.digits = <<0, 0, 0, k - 1>>

C11_NoExistingFileReplaced ==
  \A k \in SessionIds : ~sessions[k].replaced

\* --------------------------------------------------------------------- C12
Abs(x) == IF x < 0 THEN -x ELSE x

\* Sum over all pixels of the absolute difference of two gray images.
AbsDiffSum(a, b) == npsum([i \in DOMAIN a |-> Abs(a[i] - b[i])])

\* C12: the motion value of a frame against the previous one is the sum of
\* the absolute gray differences, hence 0 iff the two gray images are equal
\* (a darker frame scores above 0 too).  At pf_record the score just
\* appended is that of `frame` against `last_frame`.
C12_ScoreIsAbsoluteDifference ==
  pc = "pf_record" =>
    /\ scores[Len(scores)] = AbsDiffSum(cvtColor(frame), cvtColor(last_frame))
    /\ scores[Len(scores)] = 0 <=> cvtColor(frame) = cvtColor(last_frame)

\* --------------------------------------------------------------------- C13
\* What a process_frame call does with the score it has just computed, and
\* what it returns.
StrictThreshold ==
  /\ Len(scores') > Len(scores) =>
       LET motion == scores'[Len(scores')]
       IN /\ motion > threshold =>
               /\ record_buffer' = record_buffer_frames
               /\ Len(sessions') = Len(sessions) + (IF is_recording THEN 0 ELSE 1)
          /\ motion <= threshold =>
               /\ record_buffer' = record_buffer - 1
               /\ Len(sessions') = Len(sessions)
  /\ Len(returned') > Len(returned) =>
       returned'[Len(returned')] = (scores[Len(returned')] > threshold)

\* C13: motion is score > threshold, strictly: exactly then process_frame
\* returns True, resets the hold-over counter and, when idle, opens a
\* session; a score equal to the threshold opens nothing, leaves the counter
\* to its decrement and returns False.
C13_StrictThreshold == [][StrictThreshold]_vars

\* A call whose score equals the threshold has returned False with no
\* session opened and the counter decremented.
C13_Witness ==
  /\ Len(returned) = 1
  /\ scores[1] = threshold
  /\ ~returned[1]
  /\ Len(sessions) = 0
  /\ record_buffer = -1

\* --------------------------------------------------------------------- C14
\* C14: a session is open (self._writer is not None) iff the controller is
\* logically recording (self._is_recording).
C14_WriterIffRecording ==
  (writer # 0) <=> is_recording

\* --------------------------------------------------------------------- C15
\* C15 as claimed: the hold-over counter is never negative.
C15_BufferNonNegative ==
  record_buffer >= 0

\* C15 amended: the hold-over counter is an integer that never exceeds
\* record_buffer_frames and has no lower bound: every below-threshold frame
\* decrements it, also while idle, so it goes negative; it is positive only
\* while recording and negative only while idle (no session open).
C15_BufferBounds ==
  /\ record_buffer \in Int
  /\ record_buffer <= record_buffer_frames
  /\ record_buffer >= 0 - Len(scores)
  /\ record_buffer > 0 => is_recording
  /\ record_buffer < 0 => ~is_recording /\ OpenSessions = {}

\* Idle below-threshold frames have taken the counter to -2 after a
\* recording that it had held positive.
C15_Witness ==
  /\ record_buffer = -2
  /\ Len(sessions) = 1
  /\ record_buffer_frames >= 1

\* --------------------------------------------------------------------- C16
\* C16: the first frame the camera delivers (read by _setup) is only stored
\* as the previous frame: it is never scored, written or reported, and no
\* recording action follows from it; the estimator never runs without a
\* previous frame; after every processed frame the previous frame is that
\* frame.
C16_FirstFrameBootstrap ==
  /\ reads = 0 => last_frame = NoFrame /\ pc \notin RunPcs
  /\ reads >= 1 =>
       /\ Len(scores) <= reads - 1
       /\ Len(wrote) <= reads - 1
       /\ Len(returned) <= reads - 1
  /\ reads = 1 =>
       /\ scores = <<>> /\ wrote = <<>> /\ returned = <<>>
       /\ sessions = <<>> /\ record_buffer = 0 /\ ~is_recording
       /\ last_frame = raw_last /\ last_frame \in Frames
  /\ pc = "pf_decide" => last_frame \in Frames /\ frame \in Frames
  /\ pc = "wait_key" => last_frame = raw_frame /\ raw_frame \in Frames

\* Two frames processed after the first one, the second different from the
\* first: the previous frame is the second of them.
C16_Witness ==
  /\ pc = "wait_key"
  /\ reads = 3
  /\ Len(scores) = 2
  /\ scores[2] > 0
  /\ last_frame = raw_frame

\* --------------------------------------------------------------------- C17
\* C17: the preview never reaches the recording: the frame compared, stored
\* as previous frame and written is the camera's frame, the overlay is drawn
\* on a copy that only the window gets, and which frames are written depends
\* on the scores of the camera's frames, the threshold and the hold-over
\* alone, with the preview on and with it off.
C17_PreviewLeavesRecordingAlone ==
  /\ pc \in {"pf_decide", "pf_record", "wait_key"} => frame = raw_frame
  /\ last_frame = raw_last
  /\ pc = "pf_record" =>
       scores[Len(scores)] = calculate_motion(raw_frame, raw_last)
  /\ pc = "wait_key" =>
       /\ written = IF wrote[Len(wrote)] THEN raw_frame ELSE NoFrame
       /\ display = IF show_preview
                    THEN putText(raw_frame, IsMoving(record_buffer))
                    ELSE NoFrame
       /\ show_preview => display # raw_frame
  /\ \A i \in Completed :
       Written(i) <=> \E j \in 1..i : Above(j) /\ i - j < record_buffer_frames

\* A preview run in which a frame was written and shown: the written image
\* is the camera's, the shown one carries the overlay.
C17_Witness ==
  /\ show_preview
  /\ pc = "wait_key"
  /\ wrote[Len(wrote)]
  /\ written = raw_frame
  /\ display # NoFrame
  /\ display # written

\* --------------------------------------------------------------------- C18
\* C18: for every hold-over H >= 0, every session that was opened has
\* received at least one frame once the call that opened it has returned
\* (the opening frame is appended in the same call), so no session is closed
\* empty.
C18_NoEmptySession ==
  \A k \in SessionIds :
    (pc \in {"wait_key", "run_read"} \/ (~intr.happened /\ ~sessions[k].open))
      => Len(sessions[k].frames) >= 1

\* --------------------------------------------------------------------- C19
\* C19: the frames of a session are a contiguous run of steps in order, each
\* frame is in a session at most once and in at most one session.
C19_SessionsAreContiguousRuns ==
  /\ \A k \in SessionIds :
       \A n \in 1..(Len(sessions[k].frames) - 1) :
         sessions[k].frames[n + 1] = sessions[k].frames[n] + 1
  /\ \A k, l \in SessionIds :
       k # l => Range(sessions[k].frames) \cap Range(sessions[l].frames) = {}
  /\ \A k \in SessionIds : Range(sessions[k].frames) \subseteq Steps

\* Two sessions, the first with a run of three frames.
C19_Witness ==
  /\ Len(sessions) = 2
  /\ Len(sessions[1].frames) = 3
  /\ Len(sessions[2].frames) >= 1

====
